---- MODULE Spec2Model ----
(***************************************************************************)
(* Model of the training controllers of repalette                          *)
(* (src/repalette/lightning/systems.py) and of the run that drives them    *)
(* (src/repalette/training/adversarial.py).                                *)
(*                                                                         *)
(* Numbers.  Losses are fixed-point integers (hundredths).  A probability  *)
(* is a multiple of 1/One.  IEEE infinity is the value Inf, minus infinity *)
(* is -Inf.  A tensor is the sequence of its per-sample values; an optional *)
(* scalar is a sequence of length 0 or 1.                                  *)
(*                                                                         *)
(* The networks are opaque: what the generator and the discriminator       *)
(* return for a batch is an input of a step (the record `net`): the        *)
(* reconstruction error of the generator's output and the realness scores  *)
(* of the four (image, palette) pairings.                                  *)
(***************************************************************************)
EXTENDS Integers, Sequences, FiniteSets, TLC

VARIABLES
    system,         \* the controller class that is constructed
    hparams,        \* self.hparams (save_hyperparameters)
    k,              \* self.k of an adversarial controller
    pc,             \* where the run is
    error,          \* the exception that ended the run, or "none"
    optimizers,     \* what configure_optimizers returned
    current_epoch,  \* trainer: epoch number
    batch_idx,      \* trainer: index of the batch within the epoch
    opt_idx,        \* trainer: which optimizer's turn is next for the batch
    num_batches,    \* trainer: batches per epoch of the train dataloader
    global_step,    \* trainer: training batches completed in the run
    gen_steps,      \* <<epoch, batch_nb>> of every generator optimizer.step
    disc_steps,     \* <<epoch, batch_nb>> of every discriminator optimizer.step
    noise,          \* noise amplitudes of the discriminator turns executed, latest last (at most 2 kept)
    call,           \* the last handler invocation and what it computed
    sink,           \* what that invocation reported with self.log: <<key, value>> pairs
    perturbed,      \* the tensors of the batch last handed to a step that hold added noise
    test_idx,       \* trainer.test: test batches processed
    outputs,        \* trainer.test: what the test steps have returned, in order
    hp_log,         \* the records given to self.logger.log_hyperparams: [params, metrics]
    entry,          \* "main": the run is main() of training/adversarial.py; "direct": the
                    \* controller is constructed with its hyperparameters as keywords
    checkpoint,     \* main: the file at PRETRAINED_MODEL_CHECKPOINT_PATH
    extra,          \* main: the keys of vars(hparams) that __init__ has no parameter for
    generator,      \* main's `generator`, then the controller's self.generator
    saved           \* main: checkpoints written by the ModelCheckpoint callback

vars == <<system, hparams, k, pc, error, optimizers, current_epoch, batch_idx,
          opt_idx, num_batches, global_step, gen_steps, disc_steps, noise, call, sink,
          perturbed, test_idx, outputs, hp_log, entry, checkpoint, extra, generator, saved>>

\* the state of trainer.test and of the logger
testvars == <<test_idx, outputs, hp_log>>

\* the state of main()
mainvars == <<entry, checkpoint, extra, generator, saved>>

-----------------------------------------------------------------------------
(* Bounds of the model *)

MaxK == 4
MaxBatches == 8
MaxEpochs == 2
MaxLambda == 2
MaxTestBatches == 2

-----------------------------------------------------------------------------
(* Numbers *)

\* float("inf"), what -torch.log(0.) is
Inf == 1000000

\* the literal 1.0 of `1.0 - self.discriminator(...)`, in units of the probability grid
One == 4

\* the literal 0.1 of the noise amplitude, in units of 0.0005
AmpScale == 200

Probs == 0 .. One

IsFinite(x) == x # Inf /\ x # -Inf

Add(x, y) ==
    IF x = Inf \/ y = Inf THEN Inf
    ELSE IF x = -Inf \/ y = -Inf THEN -Inf
    ELSE x + y

Neg(x) == 0 - x

\* 100 * ln(p / One) for p = 1 .. One
LogTable == <<-139, -69, -29, 0>>

torch_log(t) == [i \in 1 .. Len(t) |-> IF t[i] = 0 THEN -Inf ELSE LogTable[t[i]]]

RECURSIVE SumSeq(_)
SumSeq(t) == IF t = <<>> THEN 0 ELSE Head(t) + SumSeq(Tail(t))

torch_mean(t) ==
    IF \E i \in 1 .. Len(t) : t[i] = -Inf THEN -Inf
    ELSE IF \E i \in 1 .. Len(t) : t[i] = Inf THEN Inf
    ELSE SumSeq(t) \div Len(t)

\* 1.0 - tensor
OneMinus(t) == [i \in 1 .. Len(t) |-> One - t[i]]

-----------------------------------------------------------------------------
(* Hyperparameters and network outputs *)

PreTrain == "PreTrainSystem"
AdversarialMSE == "AdversarialMSESystem"
Adversarial == "AdversarialSystem"

Systems == {PreTrain, AdversarialMSE, Adversarial}
AdversarialSystems == {AdversarialMSE, Adversarial}

OptimizerNames == {"adam", "adamw", "sgd"}

HParams(sys) ==
    IF sys = PreTrain
    THEN [optimizer : OptimizerNames]
    ELSE [optimizer : OptimizerNames, k : 1 .. MaxK, lambda_mse_loss : 0 .. MaxLambda]

\* what the networks return for one batch
Nets(tensors, errors) == [mse : errors, tt : tensors, to : tensors, ot : tensors, oo : tensors]

Tensors == {<<0>>, <<One>>, <<1, 2>>}
MSEValues == {0, 3}

CallNets == Nets(Tensors, MSEValues)

TrainerNets ==
    {[mse |-> 3, tt |-> t, to |-> t, ot |-> t, oo |-> t] : t \in {<<0>>, <<1, 2>>}}

TestNets ==
    {[mse |-> m, tt |-> <<1, 2>>, to |-> <<1, 2>>, ot |-> <<1, 2>>, oo |-> <<1, 2>>] : m \in MSEValues \cup {1}}

-----------------------------------------------------------------------------
(* The tensors of a training step: those unpacked from the batch, and recolored_img *)

BatchTensors(sys) ==
    IF sys = AdversarialMSE THEN {"source_img", "target_img", "original_img"}
    ELSE IF sys = Adversarial THEN {"source_image", "original_image"}
    ELSE {"source_img", "target_img"}

\* what the generator's own loss is computed from: the image given to self.generator and,
\* with the reconstruction loss, the image whose chrominance is its target
GeneratorInputs(sys) ==
    IF sys = Adversarial THEN {"source_image"} ELSE {"source_img", "target_img"}

\* the image the discriminator is shown as the real one
RealImage(sys) == IF sys = Adversarial THEN "source_image" ELSE "original_img"

\* noise is added on the generator turn too
NoisedTensors_EveryTurn(sys, optimizer_idx) ==
    IF optimizer_idx \in {0, 1} THEN {"recolored_img", RealImage(sys)} ELSE {}

\* the tensors that `+= torch.normal(...)` is applied to
NoisedTensors(sys, optimizer_idx) ==
    IF optimizer_idx = 1 THEN {"recolored_img", RealImage(sys)} ELSE {}

\* the discriminator calls of the discriminator turn on the recolored image:
\* <<probe, whether it is given recolored_img.detach()>>
RecoloredProbes(sys) ==
    IF sys = AdversarialMSE
    THEN {<<"fake_prob_tt", TRUE>>, <<"fake_prob_to", FALSE>>}
    ELSE {<<"fake_prob_tt", TRUE>>, <<"fake_prob_to", TRUE>>}

\* the generator loss scored on the recolored image itself, as on the generator turn
EvalProbes_Attached(sys) == {<<"real_prob_tt", FALSE>>, <<"fake_prob_tt", TRUE>>, <<"fake_prob_to", TRUE>>}

\* the same calls in validation_step and test_step, with the one of the generator loss
EvalProbes(sys) == {<<"real_prob_tt", TRUE>>, <<"fake_prob_tt", TRUE>>, <<"fake_prob_to", TRUE>>}

-----------------------------------------------------------------------------
(* Loss composition and noise schedule *)

adv_loss(real_prob_tt) == Neg(torch_mean(torch_log(real_prob_tt)))

\* the weight applied to the wrong term
generator_loss_WeightOnAdv(sys, mse_loss, adv, lambda_mse_loss) ==
    IF sys = AdversarialMSE
    THEN Add(mse_loss, IF IsFinite(adv) THEN adv * lambda_mse_loss ELSE adv)
    ELSE adv

generator_loss(sys, mse_loss, adv, lambda_mse_loss) ==
    IF sys = AdversarialMSE THEN Add(mse_loss * lambda_mse_loss, adv) ELSE adv

\* the logarithm taken of one minus each of the three fake probabilities
discriminator_loss_OneMinus(fake_prob_tt, fake_prob_to, fake_prob_ot, real_prob_oo) ==
    Neg(Add(Add(Add(torch_mean(torch_log(OneMinus(fake_prob_tt))),
                    torch_mean(torch_log(OneMinus(fake_prob_to)))),
                torch_mean(torch_log(OneMinus(fake_prob_ot)))),
            torch_mean(torch_log(real_prob_oo))))

discriminator_loss(fake_prob_tt, fake_prob_to, fake_prob_ot, real_prob_oo) ==
    Neg(Add(Add(Add(torch_mean(torch_log(fake_prob_tt)),
                    torch_mean(torch_log(fake_prob_to))),
                torch_mean(torch_log(fake_prob_ot))),
            torch_mean(torch_log(real_prob_oo))))

Root4(x) == CHOOSE r \in 0 .. AmpScale : r * r * r * r <= x /\ (r + 1) * (r + 1) * (r + 1) * (r + 1) > x

\* 0.1 / ((batch_idx + 1) ** (1 / 4)), for every batch index of an epoch
Amplitudes == [i \in 0 .. MaxBatches |-> Root4((AmpScale * AmpScale * AmpScale * AmpScale) \div (i + 1))]

noise_amplitude(idx) == Amplitudes[idx]

-----------------------------------------------------------------------------
(* The step handlers, as functions of their arguments and the networks' outputs *)

NoResult ==
    [raised |-> "none", ran |-> FALSE, logs |-> {}, ret |-> <<>>,
     mse_loss |-> <<>>, adv_loss |-> <<>>, generator_loss |-> <<>>, discriminator_loss |-> <<>>,
     real_prob_tt |-> <<>>, fake_prob_tt |-> <<>>, fake_prob_to |-> <<>>,
     fake_prob_ot |-> <<>>, real_prob_oo |-> <<>>, noise_amplitude |-> <<>>,
     noised |-> {}, consumed_perturbed |-> {}, probes |-> {}]

\* the generator turn of training_step
GeneratorTurn(sys, hp, base, baselogs, net) ==
    LET adv == adv_loss(net.tt)
        gl == generator_loss(sys, net.mse, adv, hp.lambda_mse_loss)
    IN [base EXCEPT !.real_prob_tt = net.tt,
                    !.adv_loss = <<adv>>,
                    !.generator_loss = <<gl>>,
                    !.logs = baselogs \cup {<<"Train/adv_loss", adv>>, <<"Train/generator_loss", gl>>},
                    !.probes = {<<"real_prob_tt", FALSE>>},
                    !.ret = <<gl>>]

\* the discriminator turn of training_step
DiscriminatorTurn(sys, idx, base, baselogs, net) ==
    LET fake_prob_tt == OneMinus(net.tt)
        fake_prob_to == OneMinus(net.to)
        fake_prob_ot == OneMinus(net.ot)
        real_prob_oo == net.oo
        dl == discriminator_loss(fake_prob_tt, fake_prob_to, fake_prob_ot, real_prob_oo)
    IN [base EXCEPT !.noise_amplitude = <<noise_amplitude(idx)>>,
                    !.fake_prob_tt = fake_prob_tt,
                    !.fake_prob_to = fake_prob_to,
                    !.fake_prob_ot = fake_prob_ot,
                    !.real_prob_oo = real_prob_oo,
                    !.discriminator_loss = <<dl>>,
                    !.logs = IF sys = Adversarial
                             THEN baselogs \cup {<<"Train/discriminator_loss", dl>>}
                             ELSE baselogs,
                    !.probes = RecoloredProbes(sys),
                    !.ret = <<dl>>]

\* the reconstruction loss is computed but not reported
mse_logged_Silent(sys, net) == {}

\* self.log("Train/mse_loss", mse_loss) of AdversarialMSESystem; AdversarialSystem computes no MSE
mse_logged(sys, net) == IF sys = AdversarialMSE THEN {<<"Train/mse_loss", net.mse>>} ELSE {}

\* batch: the tensors of the batch that already hold noise when the step is entered
training_step(sys, hp, batch, idx, optimizer_idx, net) ==
    LET baselogs == mse_logged(sys, net)
        noised == NoisedTensors(sys, optimizer_idx)
        base == [NoResult EXCEPT !.ran = TRUE,
                                 !.mse_loss = IF sys = AdversarialMSE THEN <<net.mse>> ELSE <<>>,
                                 !.logs = baselogs,
                                 !.noised = noised,
                                 !.consumed_perturbed =
                                     (GeneratorInputs(sys) \cap batch)
                                     \cup (IF optimizer_idx = 0 THEN {"recolored_img"} \cap noised ELSE {})]
    IN IF optimizer_idx = 0 THEN GeneratorTurn(sys, hp, base, baselogs, net)
       ELSE IF optimizer_idx = 1 THEN DiscriminatorTurn(sys, idx, base, baselogs, net)
       ELSE [base EXCEPT !.raised = "ValueError"]

\* validation_step and test_step differ in the prefix of the keys and in the key of the MSE loss
EvalStep(sys, hp, prefix, msekey, net) ==
    LET adv == adv_loss(net.tt)
        gl == generator_loss(sys, net.mse, adv, hp.lambda_mse_loss)
        fake_prob_tt == OneMinus(net.tt)
        fake_prob_to == OneMinus(net.to)
        fake_prob_ot == OneMinus(net.ot)
        real_prob_oo == net.oo
        dl == discriminator_loss(fake_prob_tt, fake_prob_to, fake_prob_ot, real_prob_oo)
    IN [NoResult EXCEPT !.ran = TRUE,
                        !.mse_loss = IF sys = AdversarialMSE THEN <<net.mse>> ELSE <<>>,
                        !.real_prob_tt = net.tt,
                        !.adv_loss = <<adv>>,
                        !.generator_loss = <<gl>>,
                        !.fake_prob_tt = fake_prob_tt,
                        !.fake_prob_to = fake_prob_to,
                        !.fake_prob_ot = fake_prob_ot,
                        !.real_prob_oo = real_prob_oo,
                        !.discriminator_loss = <<dl>>,
                        !.probes = EvalProbes(sys),
                        !.logs = {<<prefix \o "/adv_loss", adv>>,
                                  <<prefix \o "/generator_loss", gl>>,
                                  <<prefix \o "/discriminator_loss", dl>>}
                                 \cup (IF sys = AdversarialMSE THEN {<<msekey, net.mse>>} ELSE {})]

validation_step(sys, hp, net) == EvalStep(sys, hp, "Val", "Val/mse_loss_epoch", net)

test_step(sys, hp, net) == EvalStep(sys, hp, "Test", "Test/mse_loss", net)

\* the three steps of PreTrainSystem
pretrain_step(key, net) ==
    [NoResult EXCEPT !.ran = TRUE, !.mse_loss = <<net.mse>>, !.logs = {<<key, net.mse>>}, !.ret = <<net.mse>>]

\* a cadence that counts from one instead of zero
StepsOptimizer_OffByOne(optimizer_idx, batch_nb, kk) ==
    \/ optimizer_idx = 0
    \/ optimizer_idx = 1 /\ (batch_nb + 1) % kk = 0

\* does optimizer_step call optimizer.step(closure=closure)?
StepsOptimizer(optimizer_idx, batch_nb, kk) ==
    \/ optimizer_idx = 0
    \/ optimizer_idx = 1 /\ batch_nb % kk = 0

\* the "monitor" entries of what configure_optimizers returns: the key the learning-rate
\* scheduler of PreTrainSystem is conditioned on; the adversarial controllers return none
SchedulerMonitor(sys) == IF sys = PreTrain THEN {"Val/loss_epoch"} ELSE {}

\* the groups of parameters of the two networks
Parameters == {"generator.encoder", "generator.recoloring_decoder", "discriminator"}

\* the generator's optimizer built over self.parameters(), as in PreTrainSystem
OptimizerParams_All(sys) ==
    IF sys = PreTrain THEN <<{"generator.encoder", "generator.recoloring_decoder"}>>
    ELSE <<Parameters, {"discriminator"}>>

\* the parameters given to each optimizer that configure_optimizers builds, in the order
\* of the list it returns
OptimizerParams(sys) ==
    IF sys = PreTrain THEN <<{"generator.encoder", "generator.recoloring_decoder"}>>
    ELSE <<{"generator.recoloring_decoder"}, {"discriminator"}>>

\* an unknown name silently falls back to Adam
BuiltOptimizers_Fallback(sys, name) ==
    IF sys = PreTrain THEN <<"Adam">>
    ELSE IF name = "adamw" THEN <<"AdamW", "AdamW">> ELSE <<"Adam", "Adam">>

\* the optimizers configure_optimizers builds for a name; <<>> when it raises
BuiltOptimizers(sys, name) ==
    IF sys = PreTrain
    THEN IF name = "adam" THEN <<"Adam">> ELSE IF name = "adamw" THEN <<"Adam">> ELSE <<>>
    ELSE IF name = "adam" THEN <<"Adam", "Adam">>
         ELSE IF name = "adamw" THEN <<"AdamW", "AdamW">>
         ELSE <<>>

-----------------------------------------------------------------------------
(* State changes shared by the run and by direct calls *)

\* the record of an invocation
Invocation(op, optimizer_idx, idx, stepped, res) ==
    [op |-> op, optimizer_idx |-> optimizer_idx, batch_idx |-> idx, stepped |-> stepped] @@ res

KeepLast(s, x) == IF s = <<>> THEN <<x>> ELSE <<s[Len(s)], x>>

\* optimizer_step(current_epoch, batch_nb, optimizer, optimizer_idx, closure): the closure
\* is the batch's training_step (and backward), run by optimizer.step before the update
optimizer_step(epoch, batch_nb, batch, optimizer_idx, net) ==
    LET steps == StepsOptimizer(optimizer_idx, batch_nb, k)
        res == IF steps THEN training_step(system, hparams, batch, batch_nb, optimizer_idx, net) ELSE NoResult
        updated == steps /\ res.raised = "none"
    IN /\ call' = Invocation("optimizer_step", optimizer_idx, batch_nb, updated, res)
       /\ sink' = res.logs
       /\ error' = res.raised
       /\ gen_steps' = IF updated /\ optimizer_idx = 0 THEN Append(gen_steps, <<epoch, batch_nb>>) ELSE gen_steps
       /\ disc_steps' = IF updated /\ optimizer_idx = 1 THEN Append(disc_steps, <<epoch, batch_nb>>) ELSE disc_steps
       /\ noise' = IF res.noise_amplitude # <<>> THEN KeepLast(noise, res.noise_amplitude[1]) ELSE noise
       /\ perturbed' = batch \cup (res.noised \cap BatchTensors(system))

\* a handler that updates no parameter
Handled(op, batch, optimizer_idx, idx, res) ==
    /\ call' = Invocation(op, optimizer_idx, idx, FALSE, res)
    /\ perturbed' = batch \cup (res.noised \cap BatchTensors(system))
    /\ sink' = res.logs
    /\ error' = res.raised
    /\ noise' = IF res.noise_amplitude # <<>> THEN KeepLast(noise, res.noise_amplitude[1]) ELSE noise
    /\ UNCHANGED <<gen_steps, disc_steps>>

-----------------------------------------------------------------------------
(* Construction *)

NoCall == Invocation("none", 0, 0, FALSE, NoResult)

Start(sys, hp, n) ==
    /\ system = sys
    /\ hparams = hp
    /\ k = 0
    /\ pc = "start"
    /\ error = "none"
    /\ optimizers = <<>>
    /\ current_epoch = 0
    /\ batch_idx = 0
    /\ opt_idx = 0
    /\ num_batches = n
    /\ global_step = 0
    /\ gen_steps = <<>>
    /\ disc_steps = <<>>
    /\ noise = <<>>
    /\ call = NoCall
    /\ sink = {}
    /\ perturbed = {}
    /\ test_idx = 0
    /\ outputs = <<>>
    /\ hp_log = <<>>
    /\ generator = "none"
    /\ saved = 0

\* the controller is constructed by a caller that passes the hyperparameters as keywords
Direct ==
    /\ entry = "direct"
    /\ checkpoint = "unused"
    /\ extra = {}

Checkpoints == {"valid", "missing", "corrupt"}

\* main(hparams) of training/adversarial.py, which passes **vars(hparams)
FromMain ==
    /\ entry = "main"
    /\ checkpoint \in Checkpoints
    /\ extra \in {{}, {"name", "version"}}

\* a checkpoint that cannot be read yields a freshly initialized generator
load_from_checkpoint_Fallback(ck) == IF ck = "valid" THEN "pretrained" ELSE "fresh"

\* PreTrainSystem.load_from_checkpoint(PRETRAINED_MODEL_CHECKPOINT_PATH).generator,
\* "raised" when the file is missing or cannot be read
load_from_checkpoint(ck) == IF ck = "valid" THEN "pretrained" ELSE "raised"

\* main: the pretrained generator is loaded; an exception is not caught
LoadCheckpoint ==
    /\ pc = "start"
    /\ entry = "main"
    /\ generator = "none"
    /\ LET loaded == load_from_checkpoint(checkpoint)
       IN IF loaded = "raised"
          THEN pc' = "failed" /\ error' = "CheckpointError" /\ UNCHANGED generator
          ELSE generator' = loaded /\ UNCHANGED <<pc, error>>
    /\ UNCHANGED <<system, hparams, k, optimizers, current_epoch, batch_idx, opt_idx,
                   num_batches, global_step, gen_steps, disc_steps, noise, call, sink, perturbed>>
    /\ UNCHANGED testvars
    /\ UNCHANGED <<entry, checkpoint, extra, saved>>

\* __init__: a keyword without a parameter is a TypeError; the hyperparameters are saved,
\* a generator that is not given is a new PaletteNet, self.k is set, nothing is validated
Construct ==
    /\ pc = "start"
    /\ entry = "main" => generator # "none"
    /\ IF extra # {}
       THEN pc' = "failed" /\ error' = "TypeError" /\ UNCHANGED <<k, generator>>
       ELSE /\ pc' = "constructed"
            /\ k' = IF system \in AdversarialSystems THEN hparams.k ELSE k
            /\ generator' = IF system = PreTrain \/ generator = "none" THEN "fresh" ELSE generator
            /\ UNCHANGED error
    /\ UNCHANGED <<system, hparams, optimizers, current_epoch, batch_idx, opt_idx,
                   num_batches, global_step, gen_steps, disc_steps, noise, call, sink, perturbed>>
    /\ UNCHANGED testvars
    /\ UNCHANGED <<entry, checkpoint, extra, saved>>

-----------------------------------------------------------------------------
(* The run: trainer.fit drives the controller *)

Init ==
    \E sys \in Systems : \E hp \in HParams(sys) : \E n \in 1 .. MaxBatches :
      /\ Start(sys, hp, n)
      /\ Direct \/ (sys = AdversarialMSE /\ FromMain)

\* trainer.fit first asks the controller for its optimizers
configure_optimizers ==
    /\ pc = "constructed"
    /\ optimizers' = BuiltOptimizers(system, hparams.optimizer)
    /\ IF optimizers' = <<>>
       THEN pc' = "failed" /\ error' = "NotImplementedError"
       ELSE pc' = "train" /\ error' = error
    /\ UNCHANGED <<system, hparams, k, current_epoch, batch_idx, opt_idx, num_batches,
                   global_step, gen_steps, disc_steps, noise, call, sink, perturbed>>
    /\ UNCHANGED testvars
    /\ UNCHANGED mainvars

\* the batch is finished: the next batch, or the validation at the end of the epoch
NextBatch ==
    /\ global_step' = global_step + 1
    /\ batch_idx' = batch_idx + 1
    /\ opt_idx' = 0
    /\ pc' = IF batch_idx + 1 = num_batches THEN "validate" ELSE "train"
    /\ UNCHANGED current_epoch

\* PreTrainSystem: one optimizer, the default optimizer_step
PreTrainBatch ==
    /\ pc = "train"
    /\ system = PreTrain
    /\ \E net \in TrainerNets :
         LET res == pretrain_step("Train/loss", net)
         IN /\ call' = Invocation("training_step", 0, batch_idx, TRUE, res)
            /\ sink' = res.logs
    /\ perturbed' = {}
    /\ gen_steps' = Append(gen_steps, <<current_epoch, batch_idx>>)
    /\ UNCHANGED <<error, disc_steps, noise>>
    /\ NextBatch
    /\ UNCHANGED <<system, hparams, k, optimizers, num_batches>>
    /\ UNCHANGED testvars
    /\ UNCHANGED mainvars

\* optimizer 0 of an adversarial controller on the batch the dataloader has just yielded
GeneratorBatch ==
    /\ pc = "train"
    /\ system \in AdversarialSystems
    /\ opt_idx = 0
    /\ \E net \in TrainerNets : optimizer_step(current_epoch, batch_idx, {}, 0, net)
    /\ opt_idx' = 1
    /\ UNCHANGED <<system, hparams, k, pc, optimizers, current_epoch, batch_idx, num_batches, global_step>>
    /\ UNCHANGED testvars
    /\ UNCHANGED mainvars

\* optimizer 1 of an adversarial controller on the same batch
DiscriminatorBatch ==
    /\ pc = "train"
    /\ system \in AdversarialSystems
    /\ opt_idx = 1
    /\ \E net \in TrainerNets : optimizer_step(current_epoch, batch_idx, perturbed, 1, net)
    /\ NextBatch
    /\ UNCHANGED <<system, hparams, k, optimizers, num_batches>>
    /\ UNCHANGED testvars
    /\ UNCHANGED mainvars

\* monitor of main's ModelCheckpoint (save_top_k=-1: a checkpoint at every validation
\* that reports the monitored key)
CheckpointMonitor == "Val/adv_loss"

\* the validation at the end of an epoch, then the next epoch or the end of fit
ValidationEpoch ==
    /\ pc = "validate"
    /\ \E net \in TrainerNets :
         Handled("validation_step", {}, 0, 0,
                 IF system = PreTrain THEN pretrain_step("Val/loss", net)
                 ELSE validation_step(system, hparams, net))
    /\ IF current_epoch + 1 < MaxEpochs
       THEN /\ current_epoch' = current_epoch + 1
            /\ batch_idx' = 0
            /\ pc' = "train"
       ELSE /\ pc' = "fitted"
            /\ UNCHANGED <<current_epoch, batch_idx>>
    /\ saved' = IF entry = "main" /\ CheckpointMonitor \in {kv[1] : kv \in sink'}
                THEN saved + 1 ELSE saved
    /\ UNCHANGED <<system, hparams, k, optimizers, opt_idx, num_batches, global_step>>
    /\ UNCHANGED testvars
    /\ UNCHANGED <<entry, checkpoint, extra, generator>>

\* the sum of the test losses instead of their mean
test_epoch_end_Sum(outs) == SumSeq(outs)

\* torch.stack(outputs).mean()
test_epoch_end(outs) == torch_mean(outs)

\* trainer.test: one test batch
TestBatch ==
    /\ pc \in {"fitted", "test"}
    /\ test_idx < MaxTestBatches
    /\ \E net \in TestNets :
         LET res == IF system = PreTrain THEN pretrain_step("Test/loss", net)
                    ELSE test_step(system, hparams, net)
         IN /\ Handled("test_step", {}, 0, test_idx, res)
            /\ outputs' = outputs \o res.ret
    /\ test_idx' = test_idx + 1
    /\ pc' = "test"
    /\ UNCHANGED <<system, hparams, k, optimizers, current_epoch, batch_idx, opt_idx,
                   num_batches, global_step, hp_log>>
    /\ UNCHANGED mainvars

\* trainer.test: the test dataloader is exhausted; only PreTrainSystem overrides test_epoch_end
TestEpochEnd ==
    /\ pc = "test"
    /\ pc' = "tested"
    /\ IF system = PreTrain
       THEN LET loss_epoch == test_epoch_end(outputs)
            IN /\ sink' = {<<"Test/loss_epoch", loss_epoch>>}
               /\ hp_log' = Append(hp_log, [params |-> hparams, metrics |-> loss_epoch])
               /\ call' = Invocation("test_epoch_end", 0, 0, FALSE,
                                     [NoResult EXCEPT !.ran = TRUE, !.logs = sink'])
       ELSE UNCHANGED <<sink, hp_log, call>>
    /\ UNCHANGED <<system, hparams, k, error, optimizers, current_epoch, batch_idx, opt_idx,
                   num_batches, global_step, gen_steps, disc_steps, noise, perturbed,
                   test_idx, outputs>>
    /\ UNCHANGED mainvars

Next ==
    \/ LoadCheckpoint
    \/ Construct
    \/ configure_optimizers
    \/ PreTrainBatch
    \/ GeneratorBatch
    \/ DiscriminatorBatch
    \/ ValidationEpoch
    \/ TestBatch
    \/ TestEpochEnd

Spec == Init /\ [][Next]_vars

-----------------------------------------------------------------------------
(* Direct calls: a controller built with the default optimizer, one handler *)
(* invoked on it with arguments of the caller's choice                      *)

InitCall ==
    \E sys \in AdversarialSystems :
      \E hp \in {h \in HParams(sys) : h.optimizer = "adam"} : Start(sys, hp, MaxBatches) /\ Direct

\* the batches a caller can hand to a step: a new one, and one that a discriminator turn
\* has already been given
SeenBatches(sys) == {{}, NoisedTensors(sys, 1) \cap BatchTensors(sys)}

Returned ==
    /\ pc' = "returned"
    /\ UNCHANGED <<system, hparams, k, optimizers, current_epoch, batch_idx, opt_idx,
                   num_batches, global_step>>
    /\ UNCHANGED testvars
    /\ UNCHANGED mainvars

CallTrainingStep ==
    /\ pc = "constructed"
    /\ \E idx \in 0 .. MaxBatches : \E optimizer_idx \in 0 .. 2 : \E net \in CallNets :
         \E batch \in SeenBatches(system) :
           Handled("training_step", batch, optimizer_idx, idx,
                   training_step(system, hparams, batch, idx, optimizer_idx, net))
    /\ Returned

CallValidationStep ==
    /\ pc = "constructed"
    /\ \E net \in CallNets : Handled("validation_step", {}, 0, 0, validation_step(system, hparams, net))
    /\ Returned

CallTestStep ==
    /\ pc = "constructed"
    /\ \E net \in CallNets : Handled("test_step", {}, 0, 0, test_step(system, hparams, net))
    /\ Returned

CallOptimizerStep ==
    /\ pc = "constructed"
    /\ \E batch_nb \in 0 .. MaxBatches : \E optimizer_idx \in 0 .. 2 : \E net \in CallNets :
         optimizer_step(0, batch_nb, {}, optimizer_idx, net)
    /\ Returned

NextCall ==
    \/ Construct
    \/ CallTrainingStep
    \/ CallValidationStep
    \/ CallTestStep
    \/ CallOptimizerStep

SpecCall == InitCall /\ [][NextCall]_vars

-----------------------------------------------------------------------------
(* Properties of the run (specification Spec) *)

Count(s, x) == Cardinality({i \in 1 .. Len(s) : s[i] = x})

\* the trainer has finished optimizer 0's turn on batch b of epoch e
GenTurnDone(e, b) ==
    \/ e < current_epoch
    \/ e = current_epoch /\ (b < batch_idx \/ (b = batch_idx /\ opt_idx = 1))

\* the trainer has finished optimizer 1's turn on batch b of epoch e
DiscTurnDone(e, b) ==
    \/ e < current_epoch
    \/ e = current_epoch /\ b < batch_idx

C2_DiscriminatorTurnReported ==
    (call.op = "optimizer_step" /\ call.optimizer_idx = 1) =>
      /\ call.ran
      /\ call.discriminator_loss # <<>>
      /\ \E kv \in sink : kv[1] = "Train/discriminator_loss" /\ call.discriminator_loss = <<kv[2]>>

SupportedOptimizers == {"adam", "adamw"}

\* a training step has been executed with the controller
Trained == global_step > 0 \/ gen_steps # <<>> \/ disc_steps # <<>> \/ call.op # "none"

C9_StepIndexCountsTheRun ==
    (system \in AdversarialSystems /\ pc = "train") => batch_idx = global_step

\* C10: the noise amplitude is positive at every step index, is 0.1 at index 0, is
\* strictly decreasing in the index, and from one executed discriminator turn of a run to
\* the next it never increases.
C10_AmplitudeNeverIncreases ==
    /\ noise_amplitude(0) = AmpScale
    /\ \A i \in 0 .. MaxBatches : noise_amplitude(i) > 0
    /\ \A i \in 0 .. MaxBatches : \A j \in 0 .. MaxBatches :
         i < j => noise_amplitude(i) > noise_amplitude(j)
    /\ Len(noise) = 2 => noise[2] <= noise[1]

-----------------------------------------------------------------------------
(* Properties of the handlers (specification SpecCall) *)

Keys(logged) == {kv[1] : kv \in logged}

\* C4: a training_step or an optimizer_step invoked with an optimizer selector outside
\* {0, 1} fails with an error and applies no parameter update.
C4_InvalidSelectorRaises ==
    (call.op \in {"training_step", "optimizer_step"} /\ call.optimizer_idx \notin {0, 1}) =>
      /\ call.raised # "none"
      /\ ~call.stepped

GeneratorLossKey ==
    IF call.op = "validation_step" THEN "Val/generator_loss"
    ELSE IF call.op = "test_step" THEN "Test/generator_loss"
    ELSE "Train/generator_loss"

\* the invocation contained a generator turn
HasGeneratorTurn ==
    \/ call.op \in {"validation_step", "test_step"}
    \/ call.op \in {"training_step", "optimizer_step"} /\ call.optimizer_idx = 0

\* C5: wherever a generator turn is computed (training, validation, test), the value
\* reported as generator_loss is mse_loss * lambda + adv_loss in the MSE variant and
\* adv_loss alone in the pure variant; the training step returns that value; with
\* lambda = 1 the MSE variant reports mse_loss + adv_loss.
C5_GeneratorObjective ==
    HasGeneratorTurn =>
      /\ call.generator_loss # <<>>
      /\ call.adv_loss # <<>>
      /\ LET gl == call.generator_loss[1]
             adv == call.adv_loss[1]
         IN /\ system = AdversarialMSE =>
                 /\ call.mse_loss # <<>>
                 /\ gl = IF adv = Inf THEN Inf ELSE call.mse_loss[1] * hparams.lambda_mse_loss + adv
                 /\ (hparams.lambda_mse_loss = 1 /\ adv # Inf) => gl = call.mse_loss[1] + adv
            /\ system = Adversarial => gl = adv
            /\ <<GeneratorLossKey, gl>> \in sink
            /\ call.op \in {"training_step", "optimizer_step"} => call.ret = <<gl>>

C5_Witness ==
    /\ call.op = "validation_step"
    /\ system = AdversarialMSE
    /\ hparams.lambda_mse_loss = 2
    /\ call.mse_loss = <<3>>
    /\ call.adv_loss = <<104>>
    /\ call.generator_loss = <<110>>

\* C6 (as stated): every training step of either adversarial variant, on the generator
\* turn and on the discriminator turn, reports the reconstruction loss.
C6_EveryTrainingStepReportsMSE ==
    (call.op = "training_step" /\ call.optimizer_idx \in {0, 1}) =>
      "Train/mse_loss" \in Keys(sink)

\* C6 (amended): in the MSE variant every training step computes the reconstruction loss
\* and reports it, on the generator turn and on the discriminator turn alike (on the
\* discriminator turn it is not part of the returned loss); in the pure variant no
\* reconstruction loss is computed or reported, and the generator objective is the
\* adversarial loss alone.
C6_ReconstructionLossReported ==
    (call.op = "training_step" /\ call.optimizer_idx \in {0, 1}) =>
      IF system = AdversarialMSE
      THEN /\ call.mse_loss # <<>>
           /\ <<"Train/mse_loss", call.mse_loss[1]>> \in sink
           /\ call.optimizer_idx = 1 => call.ret = call.discriminator_loss
      ELSE /\ call.mse_loss = <<>>
           /\ "Train/mse_loss" \notin Keys(sink)
           /\ call.optimizer_idx = 0 => call.ret = call.adv_loss

C6_Witness ==
    /\ call.op = "training_step"
    /\ call.optimizer_idx = 1
    /\ system = AdversarialMSE
    /\ <<"Train/mse_loss", 3>> \in sink

Computed(x) == IF x = <<>> THEN {} ELSE {x[1]}

\* C7: for every discriminator output in [0, 1], 0 and 1 included, the adversarial loss,
\* the generator loss and the discriminator loss of a training, validation or test step
\* are finite.
C7_LossesFinite ==
    \A v \in Computed(call.adv_loss) \cup Computed(call.generator_loss)
             \cup Computed(call.discriminator_loss) \cup Computed(call.ret) : IsFinite(v)

\* the four probabilities of a computed discriminator loss
HasDiscriminatorLoss == call.discriminator_loss # <<>>

BatchMean(t) == IF \E i \in 1 .. Len(t) : t[i] = 0 THEN -Inf ELSE SumSeq([i \in 1 .. Len(t) |-> LogTable[t[i]]]) \div Len(t)

\* C8 (as stated): the discriminator loss is -(mean(log(1 - fake_prob_tt)) +
\* mean(log(1 - fake_prob_to)) + mean(log(1 - fake_prob_ot)) + mean(log(real_prob_oo)))
\* of the four values of those names.
C8_LogOfOneMinusFake ==
    HasDiscriminatorLoss =>
      call.discriminator_loss[1] =
        Neg(Add(Add(Add(BatchMean(OneMinus(call.fake_prob_tt)), BatchMean(OneMinus(call.fake_prob_to))),
                    BatchMean(OneMinus(call.fake_prob_ot))),
                BatchMean(call.real_prob_oo)))

\* C8 (amended): the discriminator loss is -(mean(log(fake_prob_tt)) +
\* mean(log(fake_prob_to)) + mean(log(fake_prob_ot)) + mean(log(real_prob_oo))) of the
\* four values of those names, each fake_prob being one minus the probe's realness score;
\* it is non-negative, is 0 when the three fake_prob and real_prob_oo are all 1, and is
\* infinite as soon as one of the four is 0 for a sample.
C8_DiscriminatorLoss ==
    HasDiscriminatorLoss =>
      LET dl == call.discriminator_loss[1]
          four == <<call.fake_prob_tt, call.fake_prob_to, call.fake_prob_ot, call.real_prob_oo>>
      IN /\ dl = Neg(Add(Add(Add(BatchMean(four[1]), BatchMean(four[2])), BatchMean(four[3])),
                         BatchMean(four[4])))
         /\ dl >= 0
         /\ (\A n \in 1 .. 4 : \A i \in 1 .. Len(four[n]) : four[n][i] = One) => dl = 0
         /\ (\E n \in 1 .. 4 : \E i \in 1 .. Len(four[n]) : four[n][i] = 0) <=> dl = Inf

C8_Witness ==
    /\ call.op = "training_step"
    /\ call.fake_prob_tt = <<3, 2>>
    /\ call.fake_prob_to = <<One>>
    /\ call.fake_prob_ot = <<One>>
    /\ call.real_prob_oo = <<1, 2>>
    /\ call.discriminator_loss = <<153>>

-----------------------------------------------------------------------------
(* Optimizers (specification Spec) *)

\* torch.optim class that a supported name of the 'optimizer' hyperparameter names
NamedKind(name) == IF name = "adamw" THEN "AdamW" ELSE "Adam"

\* C11: in every controller each optimizer that configure_optimizers has built is of the
\* kind the 'optimizer' hyperparameter names: Adam for 'adam', AdamW for 'adamw', in the
\* Pretrain controller as in both optimizers of the adversarial controllers.
C11_OptimizerKindAsNamed ==
    \A i \in 1 .. Len(optimizers) : optimizers[i] = NamedKind(hparams.optimizer)

\* the same for the adversarial controllers alone
C11_AdversarialKindAsNamed ==
    system \in AdversarialSystems =>
      /\ \A i \in 1 .. Len(optimizers) : optimizers[i] = NamedKind(hparams.optimizer)
      /\ (pc \in {"train", "validate", "fitted"} => Len(optimizers) = 2)

-----------------------------------------------------------------------------
(* Noise (specification Spec) *)

\* C12: in a run of either adversarial variant, a training step adds noise only on the
\* discriminator turn and only to the recolored image and the real image it shows the
\* discriminator; no tensor the generator consumes for its own loss (the image given to
\* the generator, the recolored image scored on the generator turn, the target of the
\* reconstruction loss) holds noise when it is consumed; validation adds no noise.
C12_NoiseOnlyOnDiscriminatorProbes ==
    /\ (call.op = "optimizer_step" /\ call.ran) =>
         /\ call.consumed_perturbed = {}
         /\ (call.noised # {} => call.optimizer_idx = 1)
         /\ (call.optimizer_idx = 1 => call.noised = {"recolored_img", RealImage(system)})
         /\ call.noised \cap (BatchTensors(system) \ {RealImage(system)}) = {}
    /\ (call.op # "optimizer_step" \/ ~call.ran) => call.noised = {}

C12_Witness ==
    /\ system = Adversarial
    /\ call.op = "optimizer_step"
    /\ call.optimizer_idx = 1
    /\ call.ran
    /\ call.noise_amplitude # <<>>
    /\ call.noised = {"recolored_img", "source_image"}
    /\ call.consumed_perturbed = {}
    /\ Len(disc_steps) > 1

-----------------------------------------------------------------------------
(* Validation and test (specification Spec) *)

EvalOps == {"validation_step", "test_step"}

\* C13: a validation step or a test step of any controller updates no parameter of the
\* generator or the discriminator, adds no noise, leaves the step counter and the
\* hyperparameters unchanged, and every discriminator call it makes on the recolored
\* image (the one of the generator loss and the two discriminator probes) is given a
\* detached copy.
C13_EvalStepFrame ==
    [][(pc \in {"validate", "fitted", "test"} /\ call'.op \in EvalOps) =>
         /\ gen_steps' = gen_steps
         /\ disc_steps' = disc_steps
         /\ ~call'.stepped
         /\ noise' = noise
         /\ call'.noised = {}
         /\ call'.noise_amplitude = <<>>
         /\ perturbed' = {}
         /\ global_step' = global_step
         /\ hparams' = hparams
         /\ k' = k
         /\ optimizers' = optimizers
         /\ (system \in AdversarialSystems =>
               /\ {p[1] : p \in call'.probes} = {"real_prob_tt", "fake_prob_tt", "fake_prob_to"}
               /\ \A p \in call'.probes : p[2])
         /\ (system = PreTrain => call'.probes = {})]_vars

C13_Witness ==
    /\ system = AdversarialMSE
    /\ call.op = "test_step"
    /\ call.ran
    /\ call.generator_loss # <<>>
    /\ call.discriminator_loss # <<>>
    /\ <<"real_prob_tt", TRUE>> \in call.probes
    /\ gen_steps # <<>>
    /\ Len(noise) = 2
    /\ global_step > 1

-----------------------------------------------------------------------------
(* The adversarial run (specification Spec) *)

\* the controller has been constructed
Constructed == pc \notin {"start", "failed"} \/ k # 0

C14_Aborted ==
    /\ entry = "main"
    /\ checkpoint = "corrupt"
    /\ pc = "failed"
    /\ error = "CheckpointError"

-----------------------------------------------------------------------------
(* The test phase of the Pretrain controller (specification Spec) *)

\* C15: the Pretrain controller gives the logger its hyperparameters exactly once, when
\* the test phase completes after all its test steps, together with the mean of the losses
\* the test steps returned, which it also reports as Test/loss_epoch; it gives the logger
\* no hyperparameter record during training, during validation or in a test step.
C15_HyperparametersOnceAfterTest ==
    system = PreTrain =>
      /\ Len(hp_log) = IF pc = "tested" THEN 1 ELSE 0
      /\ Len(outputs) = test_idx
      /\ (pc = "test" /\ call.op = "test_step") => outputs[Len(outputs)] = call.mse_loss[1]
      /\ pc = "tested" =>
           /\ test_idx >= 1
           /\ hp_log[1].params = hparams
           /\ hp_log[1].metrics = SumSeq(outputs) \div Len(outputs)
           /\ sink = {<<"Test/loss_epoch", hp_log[1].metrics>>}

C15_Witness ==
    /\ system = PreTrain
    /\ pc = "tested"
    /\ outputs = <<3, 1>>
    /\ hp_log = <<[params |-> hparams, metrics |-> 2]>>
    /\ gen_steps # <<>>

-----------------------------------------------------------------------------
(* Ownership of the parameters (specification Spec) *)

\* how many times the parameters p have been updated on batch b of epoch e: optimizer 0's
\* steps are gen_steps, optimizer 1's are disc_steps
Updates(p, e, b) ==
    LET owned == OptimizerParams(system)
    IN (IF p \in owned[1] THEN Count(gen_steps, <<e, b>>) ELSE 0)
       + (IF Len(owned) > 1 /\ p \in owned[2] THEN Count(disc_steps, <<e, b>>) ELSE 0)

\* C16: in an adversarial run the generator's optimizer holds the parameters of the
\* generator's decoder only, the discriminator's optimizer those of the discriminator
\* only, the two sets are disjoint, the generator's encoder is never updated, and on no
\* training step is a parameter updated more than once.
C16_OneUpdateSource ==
    (system \in AdversarialSystems /\ optimizers # <<>>) =>
      LET owned == OptimizerParams(system)
      IN /\ Len(owned) = 2
         /\ Len(optimizers) = 2
         /\ owned[1] = {"generator.recoloring_decoder"}
         /\ owned[2] = {"discriminator"}
         /\ owned[1] \cap owned[2] = {}
         /\ \A e \in 0 .. MaxEpochs - 1 : \A b \in 0 .. num_batches - 1 :
              /\ Updates("generator.encoder", e, b) = 0
              /\ \A p \in Parameters : Updates(p, e, b) <= 1
              /\ GenTurnDone(e, b) => Updates("generator.recoloring_decoder", e, b) = 1

C16_Witness ==
    /\ system = AdversarialMSE
    /\ pc = "train"
    /\ opt_idx = 0
    /\ batch_idx = 1
    /\ current_epoch = 0
    /\ Updates("generator.recoloring_decoder", 0, 0) = 1
    /\ Updates("discriminator", 0, 0) = 1
    /\ Updates("generator.encoder", 0, 0) = 0

-----------------------------------------------------------------------------
(* Gradient paths of the discriminator turn (specification SpecCall) *)

\* the invocation ran the discriminator turn of training_step
RanDiscriminatorTurn ==
    call.op \in {"training_step", "optimizer_step"} /\ call.optimizer_idx = 1 /\ call.ran

\* C17: in both adversarial variants the two discriminator calls of the discriminator
\* turn that take the recolored image (paired with the target palette, and paired with
\* the unrelated palette) are both given a detached copy of it, so that no gradient of
\* the discriminator loss reaches the generator.
C17_DiscriminatorTurnDetaches ==
    RanDiscriminatorTurn =>
      /\ {p[1] : p \in call.probes} = {"fake_prob_tt", "fake_prob_to"}
      /\ \A p \in call.probes : p[2]

\* the same for AdversarialSystem alone
C17_PureVariantDetaches ==
    (system = Adversarial /\ RanDiscriminatorTurn) =>
      call.probes = {<<"fake_prob_tt", TRUE>>, <<"fake_prob_to", TRUE>>}

-----------------------------------------------------------------------------
(* Monitored metrics (specification Spec) *)

\* the keys the run monitors: the scheduler's, and in main() the checkpoint callback's
Monitored ==
    SchedulerMonitor(system) \cup (IF entry = "main" THEN {CheckpointMonitor} ELSE {})

\* the last handler to run was the validation that ends an epoch
ValidationDone == call.op = "validation_step" /\ pc \in {"train", "fitted"}

\* C18: at the end of every validation epoch every key the run monitors (the monitor of
\* the Pretrain learning-rate scheduler, the monitor of the adversarial checkpoint
\* callback) is among the keys the controller's validation step has reported.
C18_MonitoredKeysReported ==
    ValidationDone => Monitored \subseteq Keys(sink)

\* the same for the checkpoint monitor of the adversarial run alone
C18_CheckpointMonitorReported ==
    (ValidationDone /\ entry = "main") =>
      (CheckpointMonitor \in Keys(sink) /\ saved = current_epoch + (IF pc = "fitted" THEN 1 ELSE 0))

-----------------------------------------------------------------------------
(* The caller's batch (specification SpecCall) *)

TrainingOps == {"training_step", "optimizer_step"}

\* C19: a training step of an adversarial controller leaves the batch it is given
\* unchanged: no tensor of the batch has noise added to it on either turn (noise goes to
\* copies), so the generator of a step that is given a batch a second time consumes
\* tensors without noise.
C19_BatchUnchanged ==
    call.op \in TrainingOps =>
      /\ call.noised \cap BatchTensors(system) = {}
      /\ call.consumed_perturbed = {}

\* the generator turn alone adds noise to nothing
C19_GeneratorTurnKeepsBatch ==
    (call.op \in TrainingOps /\ call.optimizer_idx = 0) => call.noised = {}

\* AdversarialSystem is given a batch a second time: its generator consumes the noised image
C19_SecondPass ==
    /\ system = Adversarial
    /\ call.op = "training_step"
    /\ call.optimizer_idx = 0
    /\ call.consumed_perturbed = {"source_image"}

====
